---- MODULE Spec2Model ----
(***************************************************************************)
(* LiveAuth MCP bridge: the tool-call dispatcher of the canonical server   *)
(* (the variant with demo mode), its credential cache and its demo         *)
(* session map.  One action per tool invocation; the outcome of the        *)
(* outbound fetch is an input of the action.                               *)
(***************************************************************************)
EXTENDS Integers, Sequences, FiniteSets, TLC

VARIABLES
    apiKey,        \* LIVEAUTH_API_KEY ("" when not configured)
    demoEnv,       \* process.env.LIVEAUTH_DEMO === 'true'
    cachedJwt,     \* the module-level credential cache
    demoSessions,  \* Map<string, DemoSession>
    now,           \* Date.now(), in ms
    calls,         \* number of tool invocations handled so far
    last,          \* the last invocation: request, time, pre-state, outbound call, response, result
    hist,          \* history of credential-bearing responses (observation only)
    inflight       \* the invocations suspended on their outbound call

vars == <<apiKey, demoEnv, cachedJwt, demoSessions, now, calls, last, hist, inflight>>

-----------------------------------------------------------------------------
(* Bounds of the model *)

MaxCalls == 3
MaxWideCalls == 2
MaxTicks == 2
MaxDemoCalls == 4
MaxOverlapCalls == 2

-----------------------------------------------------------------------------
(* JavaScript values: tagged records, so that values of different types    *)
(* can be compared.  An object is a function from field names to values.   *)

Undefined == [t |-> "undefined"]
Null == [t |-> "null"]
Str(s) == [t |-> "str", s |-> s]
Num(n) == [t |-> "num", n |-> n]
Bool(b) == [t |-> "bool", b |-> b]
Obj(o) == [t |-> "obj", o |-> o]

EmptyArr == [t |-> "arr"]

EmptyObj == [f \in {} |-> Undefined]

\* ToBoolean, as used by `if (x)`, `x || y`, `x ? a : b`
Truthy(v) ==
    CASE v.t = "undefined" -> FALSE
      [] v.t = "null" -> FALSE
      [] v.t = "str" -> v.s # ""
      [] v.t = "num" -> v.n # 0
      [] v.t = "bool" -> v.b
      [] OTHER -> TRUE

\* a || b
OrElse(a, b) == IF Truthy(a) THEN a ELSE b

\* a ?? b
Coalesce(a, b) == IF a.t \in {"undefined", "null"} THEN b ELSE a

\* o.f on an object held as a function: a missing field reads undefined
Get(o, f) == IF f \in DOMAIN o THEN o[f] ELSE Undefined

\* v.f on a value that is neither null nor undefined: primitives have no own fields
Prop(v, f) == IF v.t = "obj" THEN Get(v.o, f) ELSE Undefined

\* `${v}` / String(v) for the primitive values that reach a template literal
TemplateStr(v) ==
    CASE v.t = "undefined" -> "undefined"
      [] v.t = "null" -> "null"
      [] v.t = "str" -> v.s
      [] v.t = "num" -> ToString(v.n)
      [] v.t = "bool" -> (IF v.b THEN "true" ELSE "false")
      [] OTHER -> "[object Object]"

\* The object JSON.stringify puts on the wire: fields whose value is undefined are dropped
WireObject(o) == [f \in {g \in DOMAIN o : o[g].t # "undefined"} |-> o[f]]

\* Every field name that occurs in a result object, in the order JSON.stringify is modelled to emit them
FieldOrder ==
    << "quoteId", "sessionId", "powChallenge", "invoice", "bolt11", "amountSats",
       "expiresAtUnix", "paymentHash", "challengeHex", "difficultyBits", "jwt", "expiresIn",
       "remainingBudgetSats", "paymentStatus", "refreshToken", "status",
       "callsUsed", "satsUsed", "maxSatsPerDay", "maxCallsPerMinute", "expiresAt",
       "dayWindowStart", "pr", "routes", "_demo", "_instructions", "_note" >>

RECURSIVE JsonText(_)
RECURSIVE JsonFields(_, _)

\* JSON.stringify(v, null, 2) as a sequence of text fragments
JsonText(v) ==
    CASE v.t = "null" -> << "null" >>
      [] v.t = "str" -> << "\"" \o v.s \o "\"" >>
      [] v.t = "num" -> << ToString(v.n) >>
      [] v.t = "bool" -> << IF v.b THEN "true" ELSE "false" >>
      [] v.t = "arr" -> << "[]" >>
      [] v.t = "obj" ->
           << "{" >>
           \o JsonFields(v.o, SelectSeq(FieldOrder,
                                        LAMBDA f : f \in DOMAIN v.o /\ v.o[f].t # "undefined"))
           \o << "}" >>
      [] OTHER -> << >>

\* The fields fs of object o, each as its label followed by its value
JsonFields(o, fs) ==
    IF fs = << >> THEN << >>
    ELSE << "\"" \o Head(fs) \o "\":" >> \o JsonText(o[Head(fs)]) \o JsonFields(o, Tail(fs))

Contains(text, frag) == \E i \in 1..Len(text) : text[i] = frag

-----------------------------------------------------------------------------
(* Configuration *)

ApiKeys == {"", "la_pk_1"}

LIVEAUTH_DEMO == demoEnv \/ apiKey = ""

ContentTypeOnly == [h \in {"Content-Type"} |-> "application/json"]

\* Headers that carry the service credential whenever one is configured
getAuthHeadersWheneverKey ==
    IF apiKey # ""
      THEN [h \in {"Content-Type", "X-LW-Public"} |->
              IF h = "X-LW-Public" THEN apiKey ELSE "application/json"]
      ELSE ContentTypeOnly

getAuthHeaders ==
    IF apiKey # "" /\ ~LIVEAUTH_DEMO
      THEN [h \in {"Content-Type", "X-LW-Public"} |->
              IF h = "X-LW-Public" THEN apiKey ELSE "application/json"]
      ELSE ContentTypeOnly

\* The headers charge and usage build from the cached credential
BearerHeaders(jwt) ==
    IF Truthy(jwt)
      THEN [h \in {"Content-Type", "Authorization"} |->
              IF h = "Authorization" THEN "Bearer " \o TemplateStr(jwt) ELSE "application/json"]
      ELSE ContentTypeOnly

-----------------------------------------------------------------------------
(* Outbound calls and their outcomes *)

NoCall == [sent |-> FALSE]

Call(method, path, headers, body) ==
    [sent |-> TRUE, method |-> method, path |-> path, headers |-> headers, body |-> body]

NoResp == [net |-> "none"]

\* fetch() rejected: no response at all
Rejected == [net |-> "reject"]

\* fetch() resolved: ok is response.ok, json is whether response.json() parses
Response(ok, statusText, json, body) ==
    [net |-> "resolved", ok |-> ok, statusText |-> statusText, json |-> json, body |-> body]

\* The handler cannot use the response: transport failure, non-2xx, or a body that does not parse
Failed(resp) == resp.net = "reject" \/ ~resp.ok \/ resp.json = "invalid"

\* The message of the Error a failed call raises inside the handler
FailureMessage(resp, label) ==
    IF resp.net = "reject" THEN << "request failed, reason: ECONNREFUSED" >>
    ELSE IF resp.json = "invalid" THEN << "invalid json response body" >>
    ELSE IF resp.body.t # "obj" THEN << "Cannot read properties of null" >>
    ELSE IF Truthy(Get(resp.body.o, "error_description"))
      THEN << TemplateStr(Get(resp.body.o, "error_description")) >>
    ELSE << label, resp.statusText >>

-----------------------------------------------------------------------------
(* Results *)

TextResult(text) ==
    [kind |-> "envelope", content |-> << [type |-> "text", text |-> text] >>, isError |-> FALSE]

ErrorResult(text) ==
    [kind |-> "envelope", content |-> << [type |-> "text", text |-> text] >>, isError |-> TRUE]

\* What a handler does: it returns a result or throws, and leaves the store in some state
Return(result, jwt, sessions) ==
    [thrown |-> FALSE, result |-> result, jwt |-> jwt, sessions |-> sessions]

Throw(msg, jwt, sessions) ==
    [thrown |-> TRUE, result |-> [kind |-> "thrown", msg |-> msg], jwt |-> jwt, sessions |-> sessions]

\* const { ... } = args, with args undefined
DestructureError == << "Cannot destructure property of undefined" >>

NullBodyError == << "Cannot read properties of null" >>

\* A dispatcher without the catch clause: the handler's exception reaches the caller
CatchNothing(h) == h

\* The catch clause of the tool-call handler
CatchAll(h) ==
    IF h.thrown
      THEN Return(ErrorResult(<< "Error: " >> \o h.result.msg), h.jwt, h.sessions)
      ELSE h

-----------------------------------------------------------------------------
(* Handlers.  Each has two parts: the outbound call it issues (NoCall when  *)
(* it answers locally or throws before fetch), and what it does with the   *)
(* response.  Both read the store as it is when the handler runs.          *)

DemoDelayMs == 2000

ToolNames ==
    { "liveauth_mcp_start", "liveauth_mcp_status", "liveauth_mcp_lnurl",
      "liveauth_mcp_confirm", "liveauth_mcp_charge", "liveauth_mcp_usage",
      "liveauth_mcp_refresh" }

\* A tool listing that leaves out the refresh tool
ListToolsWithoutRefresh ==
    << "liveauth_mcp_start", "liveauth_mcp_status", "liveauth_mcp_lnurl",
       "liveauth_mcp_confirm", "liveauth_mcp_charge", "liveauth_mcp_usage" >>

\* The ListTools handler: the name of each entry of TOOLS, in the order of the array
ListTools ==
    << "liveauth_mcp_start", "liveauth_mcp_status", "liveauth_mcp_lnurl",
       "liveauth_mcp_confirm", "liveauth_mcp_charge", "liveauth_mcp_usage",
       "liveauth_mcp_refresh" >>

\* const TOOLS: the properties of each tool's inputSchema
TOOLS ==
    [n \in ToolNames |->
       CASE n = "liveauth_mcp_start" -> {"forceLightning"}
         [] n = "liveauth_mcp_status" -> {"quoteId"}
         [] n = "liveauth_mcp_lnurl" -> {"quoteId"}
         [] n = "liveauth_mcp_confirm" ->
              {"quoteId", "challengeHex", "nonce", "hashHex", "expiresAtUnix",
               "difficultyBits", "signature"}
         [] n = "liveauth_mcp_charge" -> {"callCostSats"}
         [] n = "liveauth_mcp_usage" -> {}
         [] OTHER -> {"refreshToken"}]

\* const TOOLS: the required list of each tool's inputSchema
Required ==
    [n \in ToolNames |->
       CASE n \in {"liveauth_mcp_status", "liveauth_mcp_lnurl", "liveauth_mcp_confirm"} -> {"quoteId"}
         [] n = "liveauth_mcp_charge" -> {"callCostSats"}
         [] n = "liveauth_mcp_refresh" -> {"refreshToken"}
         [] OTHER -> {}]

\* demoSessions.set(key, rec)
MapSet(m, key, rec) == [k \in DOMAIN m \cup {key} |-> IF k = key THEN rec ELSE m[k]]

(* ---- liveauth_mcp_start ---- *)

StartOutbound(hasArgs, args) ==
    IF ~hasArgs THEN NoCall
    ELSE Call("POST",
              IF LIVEAUTH_DEMO THEN << "/api/public/demo/start" >> ELSE << "/api/mcp/start" >>,
              getAuthHeaders,
              WireObject([f \in {"forceLightning"} |->
                            Coalesce(Get(args, "forceLightning"), Bool(FALSE))]))

\* A demo start that stores a record whether or not the response carried an invoice
DemoStartAlwaysStores(o) ==
    LET sessionId == OrElse(Get(o, "quoteId"), Get(o, "sessionId"))
    IN  Return(TextResult(JsonText(Obj([f \in {"quoteId"} |-> sessionId]))), cachedJwt,
               MapSet(demoSessions, sessionId,
                      [quoteId |-> sessionId, invoice |-> Get(o, "invoice"),
                       amountSats |-> Num(0), paymentHash |-> Str(""),
                       paid |-> FALSE, createdAt |-> now]))

\* The demo branch of start: the record stored and the text returned
DemoStart(o) ==
    LET sessionId == OrElse(Get(o, "quoteId"), Get(o, "sessionId"))
        inv == Get(o, "invoice")
        bolt11 == OrElse(Prop(inv, "bolt11"), inv)
        amountSats == OrElse(OrElse(Prop(inv, "amountSats"), Get(o, "amountSats")), Num(0))
        paymentHash == OrElse(Prop(inv, "paymentHash"), Str(""))
        rec == [quoteId |-> sessionId, invoice |-> bolt11, amountSats |-> amountSats,
                paymentHash |-> paymentHash, paid |-> FALSE, createdAt |-> now]
        text == JsonText(Obj(
            [f \in {"quoteId", "powChallenge", "invoice", "_demo", "_instructions"} |->
               CASE f = "quoteId" -> sessionId
                 [] f = "powChallenge" -> Null
                 [] f = "invoice" ->
                      (IF Truthy(inv)
                         THEN Obj([g \in {"bolt11", "amountSats", "expiresAtUnix", "paymentHash"} |->
                                CASE g = "bolt11" -> bolt11
                                  [] g = "amountSats" -> amountSats
                                  [] g = "expiresAtUnix" ->
                                       OrElse(Prop(inv, "expiresAtUnix"), Get(o, "expiresAtUnix"))
                                  [] OTHER -> paymentHash])
                         ELSE Null)
                 [] f = "_demo" -> Bool(TRUE)
                 [] OTHER -> Str("Demo mode: Payment simulated. Use liveauth_mcp_confirm to complete.")]))
    IN  Return(TextResult(text), cachedJwt,
               IF Truthy(inv) THEN MapSet(demoSessions, sessionId, rec) ELSE demoSessions)

\* A start that drops the cached credential when it opens a new session
StartForgetsCredential(hasArgs, args, resp) ==
    IF ~hasArgs THEN Throw(DestructureError, cachedJwt, demoSessions)
    ELSE IF Failed(resp) THEN Throw(FailureMessage(resp, "Start failed: "), cachedJwt, demoSessions)
    ELSE Return(TextResult(JsonText(resp.body)), Null, demoSessions)

\* A start that keeps a payment record of every invoice, in demo mode or not
StartRecordsInEveryMode(hasArgs, args, resp) ==
    IF ~hasArgs THEN Throw(DestructureError, cachedJwt, demoSessions)
    ELSE IF Failed(resp) THEN Throw(FailureMessage(resp, "Start failed: "), cachedJwt, demoSessions)
    ELSE IF resp.body.t = "obj" /\ "invoice" \in DOMAIN resp.body.o THEN DemoStart(resp.body.o)
    ELSE Return(TextResult(JsonText(resp.body)), cachedJwt, demoSessions)

Start(hasArgs, args, resp) ==
    IF ~hasArgs THEN Throw(DestructureError, cachedJwt, demoSessions)
    ELSE IF Failed(resp) THEN Throw(FailureMessage(resp, "Start failed: "), cachedJwt, demoSessions)
    ELSE IF LIVEAUTH_DEMO /\ resp.body.t # "obj"
      THEN Throw(<< "Cannot use 'in' operator to search for 'invoice' in null" >>,
                 cachedJwt, demoSessions)
    ELSE IF LIVEAUTH_DEMO /\ "invoice" \in DOMAIN resp.body.o THEN DemoStart(resp.body.o)
    ELSE Return(TextResult(JsonText(resp.body)), cachedJwt, demoSessions)

(* ---- liveauth_mcp_confirm ---- *)

\* A demo branch that is taken only once the simulated payment has been polled paid
ConfirmIsDemoOncePaid(args) ==
    /\ LIVEAUTH_DEMO
    /\ Get(args, "quoteId") \in DOMAIN demoSessions
    /\ demoSessions[Get(args, "quoteId")].paid

\* The demo branch of confirm is taken
ConfirmIsDemo(args) == LIVEAUTH_DEMO /\ Get(args, "quoteId") \in DOMAIN demoSessions

\* A confirm body that keeps the argument spelling of the signature
ConfirmBodySignatureSpelling(args) ==
    WireObject([f \in {"quoteId", "challengeHex", "nonce", "hashHex", "expiresAtUnix",
                       "difficultyBits", "signature"} |-> Get(args, f)])

\* const body = { quoteId }; if (challengeHex) body.challengeHex = ...; JSON.stringify(body)
ConfirmBody(args) ==
    LET truthyFields == {f \in {"challengeHex", "hashHex", "expiresAtUnix", "difficultyBits"} :
                            Truthy(Get(args, f))}
        nonceField == IF Get(args, "nonce").t # "undefined" THEN {"nonce"} ELSE {}
        sigField == IF Truthy(Get(args, "signature")) THEN {"sig"} ELSE {}
    IN  WireObject([f \in {"quoteId"} \cup truthyFields \cup nonceField \cup sigField |->
                      IF f = "sig" THEN Get(args, "signature") ELSE Get(args, f)])

ConfirmOutbound(hasArgs, args) ==
    IF ~hasArgs \/ ConfirmIsDemo(args) THEN NoCall
    ELSE Call("POST", << "/api/mcp/confirm" >>, getAuthHeaders, ConfirmBody(args))

DemoJwt(rnd) == Str("demo_jwt_" \o ToString(now) \o "_" \o rnd)

\* A demo confirm that hands the minted token to the caller without caching it
DemoConfirmNoCache(quoteId, rnd) ==
    Return(TextResult(JsonText(Obj([f \in {"jwt"} |-> DemoJwt(rnd)]))), cachedJwt,
           [demoSessions EXCEPT ![quoteId].paid = TRUE])

\* A demo confirm that mints and caches the token but leaves the record as it was
DemoConfirmKeepsUnpaid(quoteId, rnd) ==
    Return(TextResult(JsonText(Obj([f \in {"jwt"} |-> DemoJwt(rnd)]))), DemoJwt(rnd), demoSessions)

\* A demo confirm that closes every other session: only the confirmed record is kept
DemoConfirmClosesOthers(quoteId, rnd) ==
    Return(TextResult(JsonText(Obj([f \in {"jwt"} |-> DemoJwt(rnd)]))), DemoJwt(rnd),
           [k \in {quoteId} |-> [demoSessions[quoteId] EXCEPT !.paid = TRUE]])

DemoConfirm(quoteId, rnd) ==
    LET text == JsonText(Obj(
            [f \in {"jwt", "expiresIn", "remainingBudgetSats", "paymentStatus", "_demo", "_note"} |->
               CASE f = "jwt" -> DemoJwt(rnd)
                 [] f = "expiresIn" -> Num(3600)
                 [] f = "remainingBudgetSats" -> Num(1000)
                 [] f = "paymentStatus" -> Str("paid")
                 [] f = "_demo" -> Bool(TRUE)
                 [] OTHER -> Str("Demo mode - this is a simulated JWT")]))
    IN  Return(TextResult(text), DemoJwt(rnd),
               [demoSessions EXCEPT ![quoteId].paid = TRUE])

\* A confirm that treats a pending payment as a failure
ConfirmResultPendingThrows(quoteId, result) ==
    IF result.t # "obj" THEN Throw(NullBodyError, cachedJwt, demoSessions)
    ELSE IF Get(result.o, "paymentStatus") = Str("pending")
      THEN Throw(<< "Lightning payment pending" >>, cachedJwt, demoSessions)
    ELSE Return(TextResult(JsonText(result)),
                IF Truthy(Get(result.o, "jwt")) THEN Get(result.o, "jwt") ELSE cachedJwt,
                demoSessions)

\* A confirm that returns the response without caching its jwt
ConfirmResultNoCache(quoteId, result) ==
    IF result.t # "obj" THEN Throw(NullBodyError, cachedJwt, demoSessions)
    ELSE IF Get(result.o, "paymentStatus") = Str("pending")
      THEN Return(TextResult(<< "Lightning payment pending. Poll with liveauth_mcp_status using quoteId: ",
                                TemplateStr(quoteId) >>),
                  cachedJwt, demoSessions)
    ELSE Return(TextResult(JsonText(result)), cachedJwt, demoSessions)

\* A confirm that keeps the refresh token of the response in the store
ConfirmResultKeepsRefreshToken(quoteId, result) ==
    IF result.t # "obj" THEN Throw(NullBodyError, cachedJwt, demoSessions)
    ELSE IF Get(result.o, "paymentStatus") = Str("pending")
      THEN Return(TextResult(<< "Lightning payment pending. Poll with liveauth_mcp_status using quoteId: ",
                                TemplateStr(quoteId) >>),
                  cachedJwt, demoSessions)
    ELSE Return(TextResult(JsonText(result)),
                IF Truthy(Get(result.o, "refreshToken")) THEN Get(result.o, "refreshToken")
                ELSE IF Truthy(Get(result.o, "jwt")) THEN Get(result.o, "jwt") ELSE cachedJwt,
                demoSessions)

\* What confirm does with a 2xx body
\* A confirm step that caches the token before it looks at paymentStatus
ConfirmResultCachesPending(quoteId, result) ==
    IF result.t # "obj" THEN Throw(NullBodyError, cachedJwt, demoSessions)
    ELSE Return(TextResult(JsonText(result)),
                IF Truthy(Get(result.o, "jwt")) THEN Get(result.o, "jwt") ELSE cachedJwt,
                demoSessions)

ConfirmResult(quoteId, result) ==
    IF result.t # "obj" THEN Throw(NullBodyError, cachedJwt, demoSessions)
    ELSE IF Get(result.o, "paymentStatus") = Str("pending")
      THEN Return(TextResult(<< "Lightning payment pending. Poll with liveauth_mcp_status using quoteId: ",
                                TemplateStr(quoteId) >>),
                  cachedJwt, demoSessions)
    ELSE Return(TextResult(JsonText(result)),
                IF Truthy(Get(result.o, "jwt")) THEN Get(result.o, "jwt") ELSE cachedJwt,
                demoSessions)

Confirm(hasArgs, args, resp, rnd) ==
    IF ~hasArgs THEN Throw(DestructureError, cachedJwt, demoSessions)
    ELSE IF ConfirmIsDemo(args) THEN DemoConfirm(Get(args, "quoteId"), rnd)
    ELSE IF Failed(resp) THEN Throw(FailureMessage(resp, "Confirm failed: "), cachedJwt, demoSessions)
    ELSE ConfirmResult(Get(args, "quoteId"), resp.body)

(* ---- liveauth_mcp_charge ---- *)

\* A charge that goes out without the cached credential
ChargeOutboundAnonymous(hasArgs, args) ==
    IF ~hasArgs THEN NoCall
    ELSE Call("POST", << "/api/mcp/charge" >>, ContentTypeOnly,
              WireObject([f \in {"callCostSats"} |-> Get(args, "callCostSats")]))

ChargeOutbound(hasArgs, args) ==
    IF ~hasArgs THEN NoCall
    ELSE Call("POST", << "/api/mcp/charge" >>, BearerHeaders(cachedJwt),
              WireObject([f \in {"callCostSats"} |-> Get(args, "callCostSats")]))

\* A charge that reports a denial as an ordinary result
ChargeResultDenyNotFlagged(result) ==
    IF result.t # "obj" THEN Throw(NullBodyError, cachedJwt, demoSessions)
    ELSE Return(TextResult(JsonText(result)), cachedJwt, demoSessions)

ChargeResult(result) ==
    IF result.t # "obj" THEN Throw(NullBodyError, cachedJwt, demoSessions)
    ELSE IF Get(result.o, "status") = Str("deny")
      THEN Return(ErrorResult(<< "Budget exceeded! Calls used: ",
                                 TemplateStr(Get(result.o, "callsUsed")),
                                 ", Sats used: ",
                                 TemplateStr(Get(result.o, "satsUsed")),
                                 ". Stop making API calls." >>),
                  cachedJwt, demoSessions)
    ELSE Return(TextResult(JsonText(result)), cachedJwt, demoSessions)

Charge(hasArgs, args, resp) ==
    IF ~hasArgs THEN Throw(DestructureError, cachedJwt, demoSessions)
    ELSE IF Failed(resp) THEN Throw(FailureMessage(resp, "Charge failed: "), cachedJwt, demoSessions)
    ELSE ChargeResult(resp.body)

(* ---- liveauth_mcp_usage ---- *)

UsageOutbound ==
    IF LIVEAUTH_DEMO THEN NoCall
    ELSE Call("GET", << "/api/mcp/usage" >>, BearerHeaders(cachedJwt), Undefined)

DemoUsage ==
    Obj([f \in {"status", "callsUsed", "satsUsed", "maxSatsPerDay", "remainingBudgetSats",
                "maxCallsPerMinute", "_demo"} |->
           CASE f = "status" -> Str("active")
             [] f = "callsUsed" -> Num(0)
             [] f = "satsUsed" -> Num(0)
             [] f = "maxSatsPerDay" -> Num(1000)
             [] f = "remainingBudgetSats" -> Num(1000)
             [] f = "maxCallsPerMinute" -> Num(60)
             [] OTHER -> Bool(TRUE)])

\* A usage call that answers with the bridge's own figures in every mode
UsageAlwaysDemo(resp) == Return(TextResult(JsonText(DemoUsage)), cachedJwt, demoSessions)

Usage(resp) ==
    IF LIVEAUTH_DEMO THEN Return(TextResult(JsonText(DemoUsage)), cachedJwt, demoSessions)
    ELSE IF Failed(resp) THEN Throw(FailureMessage(resp, "Usage query failed: "), cachedJwt, demoSessions)
    ELSE Return(TextResult(JsonText(resp.body)), cachedJwt, demoSessions)

(* ---- liveauth_mcp_status ---- *)

StatusIsDemo(args) == LIVEAUTH_DEMO /\ Get(args, "quoteId") \in DOMAIN demoSessions

StatusOutbound(hasArgs, args) ==
    IF ~hasArgs \/ StatusIsDemo(args) THEN NoCall
    ELSE Call("GET", << "/api/mcp/status/", TemplateStr(Get(args, "quoteId")) >>,
              getAuthHeaders, Undefined)

\* A poll that marks the record paid as soon as the delay is reached
PaidAfterPollAtDelay(session) == session.paid \/ now - session.createdAt >= DemoDelayMs

\* if (!session.paid && Date.now() - session.createdAt > 2000) session.paid = true
PaidAfterPoll(session) == session.paid \/ now - session.createdAt > DemoDelayMs

\* A poll that settles every record whose delay has passed, not only the one asked about
DemoStatusSettlesAll(quoteId) ==
    Return(TextResult(JsonText(Obj([f \in {"quoteId"} |-> demoSessions[quoteId].quoteId]))),
           cachedJwt,
           [k \in DOMAIN demoSessions |->
              [demoSessions[k] EXCEPT !.paid = PaidAfterPoll(demoSessions[k])]])

DemoStatus(quoteId) ==
    LET session == demoSessions[quoteId]
        paid == PaidAfterPoll(session)
        text == JsonText(Obj(
            [f \in {"quoteId", "status", "paymentStatus", "expiresAt", "_demo", "_instructions"} |->
               CASE f = "quoteId" -> session.quoteId
                 [] f = "status" -> Str(IF paid THEN "confirmed" ELSE "pending")
                 [] f = "paymentStatus" -> Str(IF paid THEN "paid" ELSE "pending")
                 [] f = "expiresAt" -> Str("T+" \o ToString(now + 300000))
                 [] f = "_demo" -> Bool(TRUE)
                 [] OTHER -> Str(IF paid
                      THEN "Payment confirmed in demo mode. Use liveauth_mcp_confirm to get JWT."
                      ELSE "Demo mode: Invoice generated but not actually paid. Use liveauth_mcp_confirm to simulate completion.")]))
    IN  Return(TextResult(text), cachedJwt, [demoSessions EXCEPT ![quoteId].paid = paid])

Status(hasArgs, args, resp) ==
    IF ~hasArgs THEN Throw(DestructureError, cachedJwt, demoSessions)
    ELSE IF StatusIsDemo(args) THEN DemoStatus(Get(args, "quoteId"))
    ELSE IF Failed(resp) THEN Throw(FailureMessage(resp, "Status check failed: "), cachedJwt, demoSessions)
    ELSE Return(TextResult(JsonText(resp.body)), cachedJwt, demoSessions)

(* ---- liveauth_mcp_lnurl ---- *)

LnurlOutbound(hasArgs, args) ==
    IF ~hasArgs THEN NoCall
    ELSE Call("GET", << "/api/mcp/lnurl/", TemplateStr(Get(args, "quoteId")) >>,
              getAuthHeaders, Undefined)

Lnurl(hasArgs, args, resp) ==
    IF ~hasArgs THEN Throw(DestructureError, cachedJwt, demoSessions)
    ELSE IF Failed(resp) THEN Throw(FailureMessage(resp, "Lnurl fetch failed: "), cachedJwt, demoSessions)
    ELSE Return(TextResult(JsonText(resp.body)), cachedJwt, demoSessions)

(* ---- liveauth_mcp_refresh ---- *)

RefreshOutbound(hasArgs, args) ==
    IF ~hasArgs THEN NoCall
    ELSE Call("POST", << "/api/mcp/refresh" >>, ContentTypeOnly,
              WireObject([f \in {"refreshToken"} |-> Get(args, "refreshToken")]))

\* A refresh that fills the cache only when it is empty
RefreshResultKeepsCached(result) ==
    IF result.t # "obj" THEN Throw(NullBodyError, cachedJwt, demoSessions)
    ELSE Return(TextResult(JsonText(result)),
                IF Truthy(cachedJwt) THEN cachedJwt ELSE Get(result.o, "jwt"),
                demoSessions)

\* cachedJwt = result.jwt
RefreshResult(result) ==
    IF result.t # "obj" THEN Throw(NullBodyError, cachedJwt, demoSessions)
    ELSE Return(TextResult(JsonText(result)), Get(result.o, "jwt"), demoSessions)

\* A refresh that drops the cached credential when the remote call fails
RefreshClearsOnFailure(hasArgs, args, resp) ==
    IF ~hasArgs THEN Throw(DestructureError, cachedJwt, demoSessions)
    ELSE IF Failed(resp) THEN Throw(FailureMessage(resp, "Refresh failed: "), Null, demoSessions)
    ELSE RefreshResult(resp.body)

Refresh(hasArgs, args, resp) ==
    IF ~hasArgs THEN Throw(DestructureError, cachedJwt, demoSessions)
    ELSE IF Failed(resp) THEN Throw(FailureMessage(resp, "Refresh failed: "), cachedJwt, demoSessions)
    ELSE RefreshResult(resp.body)

(* ---- default: ---- *)

\* A default case that does not say which tool was asked for
UnknownToolUnnamed(name) == Throw(<< "Unknown tool" >>, cachedJwt, demoSessions)

UnknownTool(name) == Throw(<< "Unknown tool: ", name >>, cachedJwt, demoSessions)

(* ---- switch (name) ---- *)

Outbound(name, hasArgs, args) ==
    CASE name = "liveauth_mcp_start" -> StartOutbound(hasArgs, args)
      [] name = "liveauth_mcp_confirm" -> ConfirmOutbound(hasArgs, args)
      [] name = "liveauth_mcp_charge" -> ChargeOutbound(hasArgs, args)
      [] name = "liveauth_mcp_usage" -> UsageOutbound
      [] name = "liveauth_mcp_status" -> StatusOutbound(hasArgs, args)
      [] name = "liveauth_mcp_lnurl" -> LnurlOutbound(hasArgs, args)
      [] name = "liveauth_mcp_refresh" -> RefreshOutbound(hasArgs, args)
      [] OTHER -> NoCall

Switch(name, hasArgs, args, resp, rnd) ==
    CASE name = "liveauth_mcp_start" -> Start(hasArgs, args, resp)
      [] name = "liveauth_mcp_confirm" -> Confirm(hasArgs, args, resp, rnd)
      [] name = "liveauth_mcp_charge" -> Charge(hasArgs, args, resp)
      [] name = "liveauth_mcp_usage" -> Usage(resp)
      [] name = "liveauth_mcp_status" -> Status(hasArgs, args, resp)
      [] name = "liveauth_mcp_lnurl" -> Lnurl(hasArgs, args, resp)
      [] name = "liveauth_mcp_refresh" -> Refresh(hasArgs, args, resp)
      [] OTHER -> UnknownTool(name)

\* The part of a handler that runs once its fetch has settled.  The demo branches
\* of confirm and status are decided before the fetch and are not taken again.
\* A resumption that keeps a credential already cached: the first token to arrive wins
ResumeFirstTokenWins(name, args, resp) ==
    LET r == Switch(name, TRUE, args, resp, "a")
    IN  IF cachedJwt # Null THEN [r EXCEPT !.jwt = cachedJwt] ELSE r

Resume(name, args, resp) ==
    CASE name = "liveauth_mcp_start" -> Start(TRUE, args, resp)
      [] name = "liveauth_mcp_confirm" ->
           (IF Failed(resp)
              THEN Throw(FailureMessage(resp, "Confirm failed: "), cachedJwt, demoSessions)
              ELSE ConfirmResult(Get(args, "quoteId"), resp.body))
      [] name = "liveauth_mcp_charge" -> Charge(TRUE, args, resp)
      [] name = "liveauth_mcp_usage" -> Usage(resp)
      [] name = "liveauth_mcp_status" ->
           (IF Failed(resp)
              THEN Throw(FailureMessage(resp, "Status check failed: "), cachedJwt, demoSessions)
              ELSE Return(TextResult(JsonText(resp.body)), cachedJwt, demoSessions))
      [] name = "liveauth_mcp_lnurl" -> Lnurl(TRUE, args, resp)
      [] OTHER -> Refresh(TRUE, args, resp)

-----------------------------------------------------------------------------
(* Inputs: argument bags and remote responses *)

SessionIds == {"q1", "q2"}

Rnds == {"a", "b"}

QuoteIdBags == {EmptyObj} \cup {[f \in {"quoteId"} |-> Str(q)] : q \in SessionIds}

\* The proof-of-work fields of a confirm call: none, a full echo of the challenge,
\* and an echo with falsy values
PowBags ==
    { EmptyObj,
      [challengeHex |-> Str("c1"), nonce |-> Num(7), hashHex |-> Str("h1"),
       expiresAtUnix |-> Num(99), difficultyBits |-> Num(18), signature |-> Str("s1")],
      [challengeHex |-> Str(""), nonce |-> Num(0), hashHex |-> Str("h1"),
       expiresAtUnix |-> Num(0), difficultyBits |-> Num(0), signature |-> Str("")] }

\* a @@ b for two argument bags with disjoint fields
Merge(a, b) == [f \in DOMAIN a \cup DOMAIN b |-> IF f \in DOMAIN a THEN a[f] ELSE b[f]]

ArgBags(name) ==
    CASE name = "liveauth_mcp_start" -> {EmptyObj, [f \in {"forceLightning"} |-> Bool(TRUE)]}
      [] name = "liveauth_mcp_confirm" ->
           QuoteIdBags \cup {Merge([f \in {"quoteId"} |-> Str("q1")], p) : p \in PowBags}
      [] name = "liveauth_mcp_charge" -> {EmptyObj, [f \in {"callCostSats"} |-> Num(1)]}
      [] name = "liveauth_mcp_status" -> QuoteIdBags
      [] name = "liveauth_mcp_lnurl" -> {EmptyObj, [f \in {"quoteId"} |-> Str("q1")]}
      [] name = "liveauth_mcp_refresh" -> {EmptyObj, [f \in {"refreshToken"} |-> Str("r1")]}
      [] OTHER -> {EmptyObj}

\* A request is a tool name with its arguments, which may be absent altogether
Requests(name) ==
    {[hasArgs |-> FALSE, args |-> EmptyObj]}
    \cup {[hasArgs |-> TRUE, args |-> a] : a \in ArgBags(name)}

\* The well-formed requests of the handshake
LeanArgBags(name) ==
    CASE name = "liveauth_mcp_start" -> {EmptyObj, [f \in {"forceLightning"} |-> Bool(TRUE)]}
      [] name = "liveauth_mcp_confirm" -> QuoteIdBags
      [] name = "liveauth_mcp_charge" -> {[f \in {"callCostSats"} |-> Num(1)]}
      [] name = "liveauth_mcp_status" -> QuoteIdBags \ {EmptyObj}
      [] name = "liveauth_mcp_lnurl" -> {[f \in {"quoteId"} |-> Str("q1")]}
      [] name = "liveauth_mcp_refresh" -> {[f \in {"refreshToken"} |-> Str("r1")]}
      [] OTHER -> {EmptyObj}

LeanRequests(name) == {[hasArgs |-> TRUE, args |-> a] : a \in LeanArgBags(name)}

Jwts == {"j1", "j2"}

PowChallenge ==
    Obj([challengeHex |-> Str("c1"), difficultyBits |-> Num(18), expiresAtUnix |-> Num(99)])

Invoice ==
    Obj([bolt11 |-> Str("lnbc1"), amountSats |-> Num(21), expiresAtUnix |-> Num(99),
         paymentHash |-> Str("ph1")])

StartBodies ==
    {Obj([quoteId |-> Str(q), powChallenge |-> PowChallenge, invoice |-> Null]) : q \in SessionIds}
    \cup {Obj([quoteId |-> Str(q), powChallenge |-> Null, invoice |-> Invoice]) : q \in SessionIds}
    \cup {Obj([quoteId |-> Str("q1"), powChallenge |-> PowChallenge]),
          Obj([sessionId |-> Str("q2"), invoice |-> Str("lnbc1"), amountSats |-> Num(21)])}

ConfirmBodies ==
    {Obj([jwt |-> Str(j), expiresIn |-> Num(600), remainingBudgetSats |-> Num(50),
          refreshToken |-> Str("rt1")]) : j \in Jwts}
    \cup {Obj([jwt |-> Null, expiresIn |-> Num(0), remainingBudgetSats |-> Num(0),
               paymentStatus |-> Str("pending")]),
          Obj([jwt |-> Str("j2"), expiresIn |-> Num(600), paymentStatus |-> Str("pending")]),
          Obj([jwt |-> Str("j1"), expiresIn |-> Num(600), paymentStatus |-> Str("paid")]),
          Obj([jwt |-> Null, expiresIn |-> Num(0)])}

\* The refresh tokens the remote service hands out
IssuedRefreshTokens ==
    {Get(b.o, "refreshToken") : b \in {c \in ConfirmBodies : "refreshToken" \in DOMAIN c.o}}

ChargeBodies ==
    {Obj([status |-> Str("ok"), callsUsed |-> Num(1), satsUsed |-> Num(2)]),
     Obj([status |-> Str("deny"), callsUsed |-> Num(3), satsUsed |-> Num(5)])}

UsageBodies ==
    {Obj([status |-> Str("active"), callsUsed |-> Num(3), satsUsed |-> Num(5),
          maxSatsPerDay |-> Num(100), remainingBudgetSats |-> Num(95),
          maxCallsPerMinute |-> Num(60), expiresAt |-> Str("T+9"), dayWindowStart |-> Null])}

StatusBodies ==
    {Obj([quoteId |-> Str("q1"), status |-> Str(p), paymentStatus |-> Str(p),
          expiresAt |-> Str("T+9")]) : p \in {"pending", "paid"}}

LnurlBodies == {Obj([pr |-> Str("lnbc1"), routes |-> EmptyArr])}

RefreshBodies ==
    {Obj([jwt |-> Str(j), expiresIn |-> Num(600), remainingBudgetSats |-> Num(50)]) : j \in Jwts}
    \cup {Obj([expiresIn |-> Num(600)])}

ErrorBodies ==
    {Obj([error |-> Str("invalid_request"), error_description |-> Str("Quote expired")]),
     Obj([error |-> Str("invalid_request")])}

Bodies(name) ==
    CASE name = "liveauth_mcp_start" -> StartBodies
      [] name = "liveauth_mcp_confirm" -> ConfirmBodies
      [] name = "liveauth_mcp_charge" -> ChargeBodies
      [] name = "liveauth_mcp_usage" -> UsageBodies
      [] name = "liveauth_mcp_status" -> StatusBodies
      [] name = "liveauth_mcp_lnurl" -> LnurlBodies
      [] OTHER -> RefreshBodies

\* The 2xx bodies the handshake runs on
LeanBodies(name) ==
    IF name = "liveauth_mcp_start"
      THEN {b \in StartBodies : "quoteId" \in DOMAIN b.o /\ "invoice" \in DOMAIN b.o
                                  /\ (b.o["quoteId"] = Str("q1") \/ b.o["invoice"] # Null)}
      ELSE Bodies(name)

\* A transport failure, and the 2xx bodies
LeanResponses(name) ==
    {Rejected} \cup {Response(TRUE, "OK", "value", b) : b \in LeanBodies(name)}

\* Every outcome of the outbound call of a tool
Responses(name) ==
    {Rejected}
    \cup {Response(FALSE, "Bad Request", "value", b) : b \in ErrorBodies}
    \cup {Response(FALSE, "Bad Gateway", "invalid", Null),
          Response(TRUE, "OK", "invalid", Null),
          Response(TRUE, "OK", "value", Null)}
    \cup {Response(TRUE, "OK", "value", b) : b \in Bodies(name)}

-----------------------------------------------------------------------------
(* The state machine *)

TickMs == DemoDelayMs

NoSessions == [k \in {} |-> Undefined]

NoInvocation ==
    [name |-> "none", hasArgs |-> FALSE, args |-> EmptyObj, at |-> 0,
     pre |-> [cachedJwt |-> Null, demoSessions |-> NoSessions],
     out |-> NoCall, fetches |-> << >>, resp |-> NoResp, threw |-> FALSE,
     res |-> TextResult(<< >>)]

\* A handler that calls fetch again when the call has failed
FetchesRetryOnFailure(out, resp) ==
    IF ~out.sent THEN << >> ELSE IF Failed(resp) THEN << out, out >> ELSE << out >>

\* The outbound calls one invocation performs: each case of the switch holds one
\* fetch, outside any loop, and the catch clause calls nothing
Fetches(out, resp) == IF out.sent THEN << out >> ELSE << >>

\* What the responses seen so far say about credentials: one entry per 2xx confirm
\* response carrying a jwt, per demo confirm, and per 2xx refresh response
CredEvents(name, hasArgs, args, out, resp, rnd) ==
    IF name = "liveauth_mcp_confirm" /\ hasArgs /\ ~out.sent
      THEN << [op |-> "demo-confirm", jwt |-> DemoJwt(rnd), pending |-> FALSE] >>
    ELSE IF ~out.sent \/ Failed(resp) \/ resp.body.t # "obj" THEN << >>
    ELSE IF name = "liveauth_mcp_confirm" /\ Truthy(Get(resp.body.o, "jwt"))
      THEN << [op |-> "confirm", jwt |-> Get(resp.body.o, "jwt"),
               pending |-> (Get(resp.body.o, "paymentStatus") = Str("pending"))] >>
    ELSE IF name = "liveauth_mcp_refresh"
      THEN << [op |-> "refresh", jwt |-> Get(resp.body.o, "jwt"), pending |-> FALSE] >>
    ELSE << >>

\* The ids whose demo record has been confirmed since it was created
ConfirmedIds(name, hasArgs, args, out, h) ==
    IF name = "liveauth_mcp_confirm" /\ hasArgs /\ ~out.sent
      THEN hist.confirmedIds \cup {Get(args, "quoteId")}
    ELSE IF name = "liveauth_mcp_start"
      THEN {k \in hist.confirmedIds : k \in DOMAIN demoSessions /\ h.sessions[k] = demoSessions[k]}
    ELSE hist.confirmedIds

\* The ids of the demo records that a confirm has completed or that a status poll
\* has reported paid, at any time in the past
Settled(name, hasArgs, args, out, h) ==
    IF name \in {"liveauth_mcp_confirm", "liveauth_mcp_status"} /\ hasArgs /\ ~out.sent
       /\ ~h.result.isError /\ h.sessions[Get(args, "quoteId")].paid
      THEN hist.settled \cup {Get(args, "quoteId")}
      ELSE hist.settled

\* The session ids that the 2xx responses to start have issued
Issued(name, out, resp) ==
    IF name = "liveauth_mcp_start" /\ out.sent /\ ~Failed(resp) /\ resp.body.t = "obj"
      THEN hist.issued
           \cup {id \in {OrElse(Get(resp.body.o, "quoteId"), Get(resp.body.o, "sessionId"))} :
                   Truthy(id)}
      ELSE hist.issued

Init ==
    /\ apiKey \in ApiKeys
    /\ demoEnv \in BOOLEAN
    /\ cachedJwt = Null
    /\ demoSessions = NoSessions
    /\ now = 0
    /\ calls = 0
    /\ last = NoInvocation
    /\ hist = [creds |-> << >>, confirmedIds |-> {}, settled |-> {}, issued |-> {},
               early |-> [name |-> "none", jwt |-> Null]]
    /\ inflight = {}

\* The handler's return: the catch clause, the store as the handler left it, and
\* the record of the invocation
Settle(name, hasArgs, args, out, resp, rnd, body) ==
    \E h \in {CatchAll(body)} :
        /\ cachedJwt' = h.jwt
        /\ demoSessions' = h.sessions
        /\ last' = [name |-> name, hasArgs |-> hasArgs, args |-> args, at |-> now,
                    pre |-> [cachedJwt |-> cachedJwt, demoSessions |-> demoSessions],
                    out |-> out, fetches |-> Fetches(out, resp), resp |-> resp,
                    threw |-> body.thrown, res |-> h.result]
        /\ hist' = [creds |-> hist.creds \o CredEvents(name, hasArgs, args, out, resp, rnd),
                    confirmedIds |-> ConfirmedIds(name, hasArgs, args, out, h),
                    settled |-> Settled(name, hasArgs, args, out, h),
                    issued |-> Issued(name, out, resp),
                    early |-> IF Cardinality(inflight) >= 2
                                THEN [name |-> name, jwt |-> h.jwt]
                                ELSE hist.early]

\* One tool invocation, from the request to the result
Invoke(name, requests, responses, maxCalls) ==
    /\ calls < maxCalls
    /\ \E req \in requests :
       \E out \in {Outbound(name, req.hasArgs, req.args)} :
       \E resp \in (IF out.sent THEN responses ELSE {NoResp}) :
       \E rnd \in (IF name = "liveauth_mcp_confirm" /\ req.hasArgs /\ ~out.sent THEN Rnds ELSE {"a"}) :
           Settle(name, req.hasArgs, req.args, out, resp, rnd,
                  Switch(name, req.hasArgs, req.args, resp, rnd))
    /\ calls' = calls + 1
    /\ UNCHANGED <<apiKey, demoEnv, now, inflight>>

\* Sequences of well-formed calls
Handshake(name) == Invoke(name, LeanRequests(name), LeanResponses(name), MaxCalls)

InvokeStart == Handshake("liveauth_mcp_start")
InvokeConfirm == Handshake("liveauth_mcp_confirm")
InvokeCharge == Handshake("liveauth_mcp_charge")
InvokeUsage == Handshake("liveauth_mcp_usage")
InvokeStatus == Handshake("liveauth_mcp_status")
InvokeLnurl == Handshake("liveauth_mcp_lnurl")
InvokeRefresh == Handshake("liveauth_mcp_refresh")
InvokeUnknown == Handshake("liveauth_mcp_bogus")

\* Short sequences of arbitrary calls with arbitrary outcomes
AnyCall(name) == Invoke(name, Requests(name), Responses(name), MaxWideCalls)

AnyStart == AnyCall("liveauth_mcp_start")
AnyConfirm == AnyCall("liveauth_mcp_confirm")
AnyCharge == AnyCall("liveauth_mcp_charge")
AnyUsage == AnyCall("liveauth_mcp_usage")
AnyStatus == AnyCall("liveauth_mcp_status")
AnyLnurl == AnyCall("liveauth_mcp_lnurl")
AnyRefresh == AnyCall("liveauth_mcp_refresh")
AnyUnknown == AnyCall("liveauth_mcp_bogus")

\* Time passes between invocations.  Date.now() is read only where a demo record
\* exists or is created, and only differences to createdAt and the minted token
\* depend on it, so the clock is advanced only while a record exists.
Tick ==
    /\ DOMAIN demoSessions # {}
    /\ now < MaxTicks * TickMs
    /\ now' = now + TickMs
    /\ UNCHANGED <<apiKey, demoEnv, cachedJwt, demoSessions, calls, last, hist, inflight>>

Next ==
    \/ InvokeStart
    \/ InvokeConfirm
    \/ InvokeCharge
    \/ InvokeUsage
    \/ InvokeStatus
    \/ InvokeLnurl
    \/ InvokeRefresh
    \/ InvokeUnknown
    \/ Tick

NextWide ==
    \/ AnyStart
    \/ AnyConfirm
    \/ AnyCharge
    \/ AnyUsage
    \/ AnyStatus
    \/ AnyLnurl
    \/ AnyRefresh
    \/ AnyUnknown
    \/ Tick

Spec == Init /\ [][Next]_vars

SpecWide == Init /\ [][NextWide]_vars

(* ---- the demo handshake, four calls deep ---- *)

InitDemo == Init /\ LIVEAUTH_DEMO

Scenario(name) == Invoke(name, LeanRequests(name), LeanResponses(name), MaxDemoCalls)

ScenarioStart == Scenario("liveauth_mcp_start")
ScenarioStatus == Scenario("liveauth_mcp_status")
ScenarioConfirm == Scenario("liveauth_mcp_confirm")
ScenarioUsage == Scenario("liveauth_mcp_usage")

NextDemo ==
    \/ ScenarioStart
    \/ ScenarioStatus
    \/ ScenarioConfirm
    \/ ScenarioUsage
    \/ Tick

SpecDemo == InitDemo /\ [][NextDemo]_vars

(* ---- invocations as the runtime schedules them ---- *)

\* A request arrives and its handler runs up to its await fetch(...), where it is
\* suspended; a handler that answers without a fetch runs to its return.  The
\* handler is an async function and nothing in it waits for an earlier invocation.
BeginCall(name) ==
    /\ calls < MaxOverlapCalls
    /\ \E req \in LeanRequests(name) :
       \E out \in {Outbound(name, req.hasArgs, req.args)} :
           IF out.sent
             THEN /\ inflight' = inflight \cup {[n |-> calls + 1, name |-> name,
                                                  args |-> req.args, out |-> out,
                                                  jwtAt |-> cachedJwt]}
                  /\ UNCHANGED <<cachedJwt, demoSessions, last, hist>>
             ELSE /\ \E rnd \in Rnds :
                        Settle(name, req.hasArgs, req.args, out, NoResp, rnd,
                               Switch(name, req.hasArgs, req.args, NoResp, rnd))
                  /\ UNCHANGED inflight
    /\ calls' = calls + 1
    /\ UNCHANGED <<apiKey, demoEnv, now>>

BeginStart == BeginCall("liveauth_mcp_start")
BeginConfirm == BeginCall("liveauth_mcp_confirm")
BeginCharge == BeginCall("liveauth_mcp_charge")
BeginUsage == BeginCall("liveauth_mcp_usage")
BeginStatus == BeginCall("liveauth_mcp_status")
BeginLnurl == BeginCall("liveauth_mcp_lnurl")
BeginRefresh == BeginCall("liveauth_mcp_refresh")

\* The fetch of a suspended invocation settles and its handler runs to its return
CompleteCall ==
    /\ \E c \in inflight :
       \E resp \in LeanResponses(c.name) :
           /\ Settle(c.name, TRUE, c.args, c.out, resp, "a", Resume(c.name, c.args, resp))
           /\ inflight' = inflight \ {c}
    /\ UNCHANGED <<apiKey, demoEnv, now, calls>>

NextOverlap ==
    \/ BeginStart
    \/ BeginConfirm
    \/ BeginCharge
    \/ BeginUsage
    \/ BeginStatus
    \/ BeginLnurl
    \/ BeginRefresh
    \/ CompleteCall
    \/ Tick

SpecOverlap == Init /\ [][NextOverlap]_vars

-----------------------------------------------------------------------------
(* Observations used by the properties *)

\* The text of the last result
ResultText == last.res.content[1].text

\* The Authorization header of the last outbound call, "" when there is none
AuthHeader ==
    IF "Authorization" \in DOMAIN last.out.headers THEN last.out.headers["Authorization"] ELSE ""

\* The last invocation was a charge or usage call that went out to the remote service
MeteringCall ==
    /\ last.name \in {"liveauth_mcp_charge", "liveauth_mcp_usage"}
    /\ last.out.sent

\* The last invocation failed inside its handler
HandlerFailed ==
    \/ last.threw
    \/ last.name \notin ToolNames
    \/ (last.out.sent /\ Failed(last.resp))

\* Positions in the credential history of the responses that carried a credential
CredBearing == {i \in 1..Len(hist.creds) : Truthy(hist.creds[i].jwt)}

\* ... and of those among them that did not report a pending payment
CredBearingNotPending == {i \in CredBearing : ~hist.creds[i].pending}

Latest(S) == CHOOSE i \in S : \A j \in S : j <= i

ConfirmOps == {"confirm", "demo-confirm"}

-----------------------------------------------------------------------------
(* C1 *)

\* C1: whatever the operation name, the argument bag (absent included) and the
\* outcome of the outbound call, the tool-call handler returns an envelope with
\* exactly one text item and never lets an exception reach its caller; every
\* failure inside a handler gives isError = true.
C1_AlwaysEnvelope ==
    last.name # "none" =>
        /\ last.res.kind = "envelope"
        /\ Len(last.res.content) = 1
        /\ last.res.content[1].type = "text"
        /\ (HandlerFailed => last.res.isError)

\* A confirm call without an argument bag fails in the destructuring and is answered
\* with an error envelope
C1_Witness ==
    /\ last.name = "liveauth_mcp_confirm"
    /\ ~last.hasArgs
    /\ last.threw
    /\ last.res.kind = "envelope"
    /\ last.res.isError

-----------------------------------------------------------------------------
(* C2 *)

-----------------------------------------------------------------------------
(* C3 *)

\* C3: after a refresh call has succeeded with new credential K (and until a later
\* confirm response carries a credential or a later refresh succeeds), every charge
\* and usage call carries K, whatever was cached before the refresh.
C3_BearerAfterRefresh ==
    (MeteringCall
     /\ hist.creds # << >>
     /\ hist.creds[Len(hist.creds)].op = "refresh"
     /\ Truthy(hist.creds[Len(hist.creds)].jwt)) =>
        AuthHeader = "Bearer " \o TemplateStr(hist.creds[Len(hist.creds)].jwt)

\* A charge carries the refreshed credential j2 although j1 was cached before the refresh
C3_Witness ==
    /\ MeteringCall
    /\ Len(hist.creds) = 2
    /\ hist.creds[1] = [op |-> "confirm", jwt |-> Str("j1"), pending |-> FALSE]
    /\ hist.creds[2] = [op |-> "refresh", jwt |-> Str("j2"), pending |-> FALSE]
    /\ AuthHeader = "Bearer j2"

-----------------------------------------------------------------------------
(* C4 *)

-----------------------------------------------------------------------------
(* C5 *)

\* The last invocation was a charge answered by a 2xx response with an object body
ChargeAnswered ==
    /\ last.name = "liveauth_mcp_charge"
    /\ last.out.sent
    /\ ~Failed(last.resp)
    /\ last.resp.body.t = "obj"

\* C5: whenever the remote charge call succeeds (2xx) with status deny, the result
\* has isError = true and its message contains the callsUsed and the satsUsed of
\* the response; a 2xx response with status ok gives a result without isError.
C5_DenyIsError ==
    ChargeAnswered =>
        /\ Get(last.resp.body.o, "status") = Str("deny") =>
              /\ last.res.isError
              /\ Contains(ResultText, TemplateStr(Get(last.resp.body.o, "callsUsed")))
              /\ Contains(ResultText, TemplateStr(Get(last.resp.body.o, "satsUsed")))
        /\ Get(last.resp.body.o, "status") = Str("ok") => ~last.res.isError

\* A charge denied by the remote service with 3 calls and 5 sats used
C5_Witness ==
    /\ ChargeAnswered
    /\ Get(last.resp.body.o, "status") = Str("deny")
    /\ last.res.isError
    /\ Contains(ResultText, "3")
    /\ Contains(ResultText, "5")

-----------------------------------------------------------------------------
(* C6 *)

\* C6: invoking a name that is not a handled operation returns isError = true with
\* a message containing that name, performs no outbound call, changes no state,
\* and the server answers the next call.
C6_UnknownTool ==
    (last.name # "none" /\ last.name \notin ToolNames) =>
        /\ last.res.kind = "envelope"
        /\ last.res.isError
        /\ Contains(ResultText, last.name)
        /\ ~last.out.sent
        /\ cachedJwt = last.pre.cachedJwt
        /\ demoSessions = last.pre.demoSessions
        /\ (calls < MaxWideCalls => ENABLED AnyUsage)

\* An unknown tool was asked for after a credential had been cached
C6_Witness ==
    /\ last.name = "liveauth_mcp_bogus"
    /\ last.res.isError
    /\ Contains(ResultText, "liveauth_mcp_bogus")
    /\ Truthy(cachedJwt)
    /\ cachedJwt = last.pre.cachedJwt

-----------------------------------------------------------------------------
(* C7 *)

\* The last invocation sent a JSON body
SentBody == last.out.sent /\ last.out.method = "POST"

-----------------------------------------------------------------------------
(* C8 *)

PowFields == {"challengeHex", "nonce", "hashHex", "expiresAtUnix", "difficultyBits", "signature"}

WireName(f) == IF f = "signature" THEN "sig" ELSE f

\* C8: for every confirm argument bag and every value of each field's type, each of
\* the six optional proof-of-work fields is in the outgoing confirm payload if and
\* only if it is in the argument bag, no field is sent as null, and a confirm
\* carrying only quoteId sends a payload containing only quoteId.
C8_PowFieldsIffPresent ==
    (SentBody /\ last.name = "liveauth_mcp_confirm") =>
        /\ \A f \in PowFields : WireName(f) \in DOMAIN last.out.body <=> f \in DOMAIN last.args
        /\ \A f \in DOMAIN last.out.body : last.out.body[f] # Null
        /\ DOMAIN last.args = {"quoteId"} => DOMAIN last.out.body = {"quoteId"}

-----------------------------------------------------------------------------
(* C9 *)

\* The last invocation was a confirm whose 2xx response reports the payment as pending
ConfirmPending ==
    /\ last.name = "liveauth_mcp_confirm"
    /\ last.out.sent
    /\ ~Failed(last.resp)
    /\ last.resp.body.t = "obj"
    /\ Get(last.resp.body.o, "paymentStatus") = Str("pending")

\* C9: whenever a confirm response reports paymentStatus pending, the result is not
\* an error (isError is not set) and its text tells the caller to poll status for
\* that quoteId.
C9_PendingIsNotAnError ==
    ConfirmPending =>
        /\ last.res.kind = "envelope"
        /\ ~last.res.isError
        /\ ResultText =
              << "Lightning payment pending. Poll with liveauth_mcp_status using quoteId: ",
                 TemplateStr(Get(last.args, "quoteId")) >>

\* A confirm for q1 was answered pending, and the caller is told to poll q1
C9_Witness ==
    /\ ConfirmPending
    /\ Get(last.args, "quoteId") = Str("q1")
    /\ ~last.res.isError
    /\ Contains(ResultText, "q1")

-----------------------------------------------------------------------------
(* C10 *)

\* The fragment that follows a field's label in a JSON text
JsonFieldOf(text, f) ==
    text[(CHOOSE i \in 1..Len(text) : text[i] = "\"" \o f \o "\":") + 1]

\* The last invocation was a status call answered from a demo record
DemoStatusCall ==
    /\ last.name = "liveauth_mcp_status"
    /\ last.hasArgs
    /\ ~last.out.sent

\* The demo record the last status call was answered from, as it was before the call
PolledRecord == last.pre.demoSessions[Get(last.args, "quoteId")]

\* The last status call polled a demo record on which confirm has not been called
PolledUnconfirmed ==
    /\ DemoStatusCall
    /\ Get(last.args, "quoteId") \notin hist.confirmedIds

\* C10 as stated: for a demo session on which confirm has not been called, status
\* returns paymentStatus pending when now - createdAt < 2000 ms and paid when
\* now - createdAt >= 2000 ms (now being the time of the status call).
C10_AsStated ==
    PolledUnconfirmed =>
        /\ last.at - PolledRecord.createdAt < DemoDelayMs =>
              JsonFieldOf(ResultText, "paymentStatus") = "\"pending\""
        /\ last.at - PolledRecord.createdAt >= DemoDelayMs =>
              JsonFieldOf(ResultText, "paymentStatus") = "\"paid\""

\* C10 amended: for a demo session on which confirm has not been called, status
\* returns paymentStatus pending when now - createdAt <= 2000 ms and paid when
\* now - createdAt > 2000 ms.
C10_PaidAfterDelay ==
    PolledUnconfirmed =>
        /\ last.at - PolledRecord.createdAt <= DemoDelayMs =>
              JsonFieldOf(ResultText, "paymentStatus") = "\"pending\""
        /\ last.at - PolledRecord.createdAt > DemoDelayMs =>
              JsonFieldOf(ResultText, "paymentStatus") = "\"paid\""

\* A record polled for the first time exactly 2000 ms after its creation is still pending
C10_Witness ==
    /\ PolledUnconfirmed
    /\ ~PolledRecord.paid
    /\ last.at - PolledRecord.createdAt = DemoDelayMs
    /\ JsonFieldOf(ResultText, "paymentStatus") = "\"pending\""

\* A record polled more than 2000 ms after its creation is paid
C10_WitnessPaid ==
    /\ PolledUnconfirmed
    /\ ~PolledRecord.paid
    /\ last.at - PolledRecord.createdAt > DemoDelayMs
    /\ JsonFieldOf(ResultText, "paymentStatus") = "\"paid\""

-----------------------------------------------------------------------------
(* C11 *)

\* C11: in demo mode, once status(id) has returned paid or confirm(id) has
\* succeeded, every later status(id) returns paid, whatever operations (further
\* start calls included) came in between.
C11_PaidIsMonotonic ==
    (LIVEAUTH_DEMO
     /\ last.name = "liveauth_mcp_status"
     /\ last.hasArgs
     /\ Get(last.args, "quoteId") \in hist.settled) =>
        /\ DemoStatusCall
        /\ ~last.res.isError
        /\ JsonFieldOf(ResultText, "paymentStatus") = "\"paid\""

-----------------------------------------------------------------------------
(* C12 *)

\* The last invocation was a demo-mode confirm(id) while a demo record for id existed
ConfirmOfDemoSession ==
    /\ LIVEAUTH_DEMO
    /\ last.name = "liveauth_mcp_confirm"
    /\ last.hasArgs
    /\ Get(last.args, "quoteId") \in DOMAIN last.pre.demoSessions

\* The record the last confirm was about, as it was before the call
ConfirmedRecord == last.pre.demoSessions[Get(last.args, "quoteId")]

\* C12: in demo mode, whenever a demo session exists for id, confirm(id) returns a
\* non-error result with a non-null token, whether or not status was polled and
\* whatever time has passed since start, and performs no outbound call.
C12_DemoConfirmGivesToken ==
    ConfirmOfDemoSession =>
        /\ ~last.res.isError
        /\ cachedJwt.t = "str"
        /\ JsonFieldOf(ResultText, "jwt") = "\"" \o cachedJwt.s \o "\""
        /\ ~last.out.sent
        /\ last.fetches = << >>

\* A confirm of a record that no status call has marked paid, more than the delay after start
C12_Witness ==
    /\ ConfirmOfDemoSession
    /\ ~ConfirmedRecord.paid
    /\ last.at - ConfirmedRecord.createdAt > DemoDelayMs
    /\ ~last.res.isError
    /\ JsonFieldOf(ResultText, "jwt") = "\"demo_jwt_4000_a\""

\* A first confirm, of a record that a status call has marked paid
C12_WitnessPolled ==
    /\ ConfirmOfDemoSession
    /\ ConfirmedRecord.paid
    /\ last.pre.cachedJwt = Null
    /\ ~last.res.isError

-----------------------------------------------------------------------------
(* C13 *)

\* C13: in demo mode, start, status, confirm and usage each complete without any
\* outbound call, for every argument bag and every session id.
C13_DemoNeedsNoNetwork ==
    (LIVEAUTH_DEMO
     /\ last.name \in {"liveauth_mcp_start", "liveauth_mcp_status",
                       "liveauth_mcp_confirm", "liveauth_mcp_usage"}) =>
        /\ ~last.out.sent
        /\ last.fetches = << >>

-----------------------------------------------------------------------------
(* C14 *)

\* A JSON text has a field f
HasJsonField(text, f) == \E i \in 1..Len(text) : text[i] = "\"" \o f \o "\":"

\* The last invocation was a demo-mode call of tool name with an argument bag
DemoCallOf(name) == LIVEAUTH_DEMO /\ last.name = name /\ last.hasArgs

\* C14: the end-to-end demo scenario.  In demo mode start({}) returns a quoteId;
\* status(quoteId) right after the start returns pending; confirm(quoteId) returns
\* a non-null token with remainingBudgetSats = 1000; usage() returns the demo
\* default usage with callsUsed = 0; none of the four results is error-flagged.
\* Each step is stated for the state the steps before it have led to: the id has
\* been issued by a start, and no time has passed since its record was made.
C14_DemoScenario ==
    /\ (DemoCallOf("liveauth_mcp_start") /\ last.args = EmptyObj) =>
          /\ ~last.res.isError
          /\ HasJsonField(ResultText, "quoteId")
    /\ (DemoCallOf("liveauth_mcp_status")
        /\ Get(last.args, "quoteId") \in hist.issued \ hist.settled
        /\ (Get(last.args, "quoteId") \in DOMAIN last.pre.demoSessions =>
               PolledRecord.createdAt = last.at)) =>
          /\ ~last.res.isError
          /\ HasJsonField(ResultText, "paymentStatus")
          /\ JsonFieldOf(ResultText, "paymentStatus") = "\"pending\""
    /\ (DemoCallOf("liveauth_mcp_confirm") /\ Get(last.args, "quoteId") \in hist.issued) =>
          /\ ~last.res.isError
          /\ HasJsonField(ResultText, "jwt")
          /\ JsonFieldOf(ResultText, "jwt") # "null"
          /\ HasJsonField(ResultText, "remainingBudgetSats")
          /\ JsonFieldOf(ResultText, "remainingBudgetSats") = "1000"
    /\ DemoCallOf("liveauth_mcp_usage") =>
          /\ ~last.res.isError
          /\ ResultText = JsonText(DemoUsage)
          /\ JsonFieldOf(ResultText, "callsUsed") = "0"

-----------------------------------------------------------------------------
(* C15 *)

\* The last invocation was a confirm that the bridge carried out: it was sent to
\* the remote service or completed a demo record
ConfirmCarriedOut ==
    /\ last.name = "liveauth_mcp_confirm"
    /\ last.hasArgs
    /\ (last.out.sent \/ ~last.res.isError)

\* The last invocation was a charge or usage that the bridge carried out: it was
\* sent to the remote service or answered with demo usage
MeteringCarriedOut ==
    /\ last.name \in {"liveauth_mcp_charge", "liveauth_mcp_usage"}
    /\ (last.out.sent \/ ~last.res.isError)

\* C15: the bridge enforces the handshake order.  A confirm for a session is
\* carried out only after a start has issued that session, and charge and usage
\* are carried out only after a confirm has yielded a credential.
C15_HandshakeOrder ==
    /\ ConfirmCarriedOut => Get(last.args, "quoteId") \in hist.issued
    /\ MeteringCarriedOut => \E i \in CredBearing : hist.creds[i].op \in ConfirmOps

-----------------------------------------------------------------------------
(* C16 *)

\* The last invocation omitted an argument its tool requires
MissingRequired ==
    /\ last.name \in ToolNames
    /\ \E f \in Required[last.name] : ~last.hasArgs \/ f \notin DOMAIN last.args

\* C16: a call that omits a required argument of its operation returns a failure
\* result (isError = true) with a message, and the handler returns normally.
C16_MissingArgumentFails ==
    MissingRequired =>
        /\ last.res.kind = "envelope"
        /\ last.res.isError
        /\ ResultText # << >>

-----------------------------------------------------------------------------
(* C17 *)

-----------------------------------------------------------------------------
(* C18 *)

\* The last invocation's outbound call was answered with a non-2xx response
AnsweredNotOk ==
    /\ last.out.sent
    /\ last.resp.net = "resolved"
    /\ ~last.resp.ok

\* The non-2xx body of the last invocation carries an error_description
HasErrorDescription ==
    /\ last.resp.json = "value"
    /\ last.resp.body.t = "obj"
    /\ "error_description" \in DOMAIN last.resp.body.o

\* C18: for every operation and every non-2xx response, whatever its body, the
\* result is error-flagged and its message carries the response's
\* error_description when one is present and the status text otherwise.
C18_RemoteErrorMessage ==
    AnsweredNotOk =>
        /\ last.res.isError
        /\ IF HasErrorDescription
             THEN Contains(ResultText, TemplateStr(last.resp.body.o["error_description"]))
             ELSE Contains(ResultText, last.resp.statusText)

-----------------------------------------------------------------------------
(* C19 *)

\* C19: tool invocations never overlap: an invocation runs to completion, its
\* outbound wait included, before the next begins, so at no time is more than one
\* invocation suspended on its outbound call.
C19_OneAtATime == Cardinality(inflight) <= 1

-----------------------------------------------------------------------------
(* C20 *)

\* The last invocation was a confirm whose 2xx response handed out a refresh token
\* without reporting a pending payment
ConfirmGaveRefreshToken ==
    /\ last.name = "liveauth_mcp_confirm"
    /\ last.out.sent
    /\ ~Failed(last.resp)
    /\ last.resp.body.t = "obj"
    /\ Truthy(Get(last.resp.body.o, "refreshToken"))
    /\ Get(last.resp.body.o, "paymentStatus") # Str("pending")

\* C20: a refresh token returned by confirm is surfaced to the caller and never
\* stored: no store variable holds a refresh token, and the only refresh token
\* sent on an outbound call is the one supplied as the argument of that refresh call.
C20_RefreshTokenNotStored ==
    /\ cachedJwt \notin IssuedRefreshTokens
    /\ \A k \in DOMAIN demoSessions :
          \A f \in {"quoteId", "invoice", "amountSats", "paymentHash"} :
              demoSessions[k][f] \notin IssuedRefreshTokens
    /\ ConfirmGaveRefreshToken =>
          Contains(ResultText, "\"" \o Get(last.resp.body.o, "refreshToken").s \o "\"")
    /\ SentBody =>
          IF last.name = "liveauth_mcp_refresh"
            THEN /\ DOMAIN last.out.body \subseteq {"refreshToken"}
                 /\ \A f \in DOMAIN last.out.body : last.out.body[f] = Get(last.args, f)
            ELSE /\ "refreshToken" \notin DOMAIN last.out.body
                 /\ \A f \in DOMAIN last.out.body : last.out.body[f] \notin IssuedRefreshTokens
    /\ last.out.sent =>
          \A h \in DOMAIN last.out.headers :
              \A t \in IssuedRefreshTokens : last.out.headers[h] # "Bearer " \o t.s

\* After a confirm whose response carried credential j2 and refresh token rt1, a
\* refresh call sends the token of its argument, r1
C20_Witness ==
    /\ last.name = "liveauth_mcp_refresh"
    /\ SentBody
    /\ hist.creds # << >>
    /\ hist.creds[1] = [op |-> "confirm", jwt |-> Str("j2"), pending |-> FALSE]
    /\ last.pre.cachedJwt = Str("j2")
    /\ "refreshToken" \in DOMAIN last.out.body
    /\ last.out.body["refreshToken"] = Str("r1")

-----------------------------------------------------------------------------
(* C21 *)

\* The last invocation was a start answered by a 2xx response with an object body
StartAnswered ==
    /\ last.name = "liveauth_mcp_start"
    /\ last.out.sent
    /\ ~Failed(last.resp)
    /\ last.resp.body.t = "obj"

\* A JSON text has a field f whose value is rendered exactly as v is
JsonFieldIs(text, f, v) ==
    \E i \in 1..Len(text) :
        /\ text[i] = "\"" \o f \o "\":"
        /\ i + Len(JsonText(v)) <= Len(text)
        /\ SubSeq(text, i + 1, i + Len(JsonText(v))) = JsonText(v)

\* C21: in every operating mode, the result of a start answered by the service
\* contains whichever of the proof-of-work challenge and the invoice the response
\* carried, unchanged, and leaves the other one absent (missing or null); a
\* challenge returned by the service is never dropped.
C21_StartForwardsVariant ==
    StartAnswered =>
        \A f \in {"powChallenge", "invoice"} :
            IF Get(last.resp.body.o, f).t \notin {"undefined", "null"}
              THEN JsonFieldIs(ResultText, f, last.resp.body.o[f])
              ELSE \/ ~HasJsonField(ResultText, f)
                   \/ JsonFieldOf(ResultText, f) = "null"

-----------------------------------------------------------------------------
(* C22 *)

\* C22: a charge call is never rejected locally for lack of a credential.  Every
\* charge call that carries an argument bag is forwarded to the remote charge
\* endpoint, once, with "Authorization: Bearer <cachedJwt>" when a credential is
\* cached and with no Authorization header when none is; without a credential a
\* 2xx answer that is not a denial still gives a result that is not error-flagged.
C22_ChargeAlwaysForwarded ==
    (last.name = "liveauth_mcp_charge" /\ last.hasArgs) =>
        /\ last.out.sent
        /\ last.out.path = << "/api/mcp/charge" >>
        /\ last.fetches = << last.out >>
        /\ IF Truthy(last.pre.cachedJwt)
             THEN AuthHeader = "Bearer " \o last.pre.cachedJwt.s
             ELSE "Authorization" \notin DOMAIN last.out.headers
        /\ (ChargeAnswered /\ Get(last.resp.body.o, "status") # Str("deny")) => ~last.res.isError

\* A charge made before any credential was cached, forwarded without an
\* Authorization header and answered by the remote service
C22_Witness ==
    /\ last.name = "liveauth_mcp_charge"
    /\ last.pre.cachedJwt = Null
    /\ last.out.sent
    /\ "Authorization" \notin DOMAIN last.out.headers
    /\ ChargeAnswered
    /\ ~last.res.isError

\* A charge made with a cached credential, forwarded with it
C22_WitnessBearer ==
    /\ last.name = "liveauth_mcp_charge"
    /\ last.pre.cachedJwt = Str("j1")
    /\ last.out.sent
    /\ AuthHeader = "Bearer j1"

-----------------------------------------------------------------------------
(* C23 *)

\* C23: in demo mode confirm(id) on an existing demo record marks the record paid
\* whatever time has passed since it was made, and caches the token it mints, so
\* that the cached credential is the token returned; a status(id) that follows
\* the confirm returns paymentStatus paid, also when the delay threshold has not
\* been passed.
C23_DemoConfirmSettles ==
    /\ ConfirmOfDemoSession =>
          /\ demoSessions[Get(last.args, "quoteId")].paid
          /\ cachedJwt.t = "str"
          /\ HasJsonField(ResultText, "jwt")
          /\ JsonFieldOf(ResultText, "jwt") = "\"" \o cachedJwt.s \o "\""
    /\ (DemoStatusCall /\ Get(last.args, "quoteId") \in hist.confirmedIds) =>
          /\ JsonFieldOf(ResultText, "paymentStatus") = "\"paid\""
          /\ demoSessions[Get(last.args, "quoteId")].paid

\* A status call at the very time the record was made, after a confirm of it:
\* no time has passed, and the answer is paid
C23_Witness ==
    /\ DemoStatusCall
    /\ Get(last.args, "quoteId") \in hist.confirmedIds
    /\ last.at = PolledRecord.createdAt
    /\ cachedJwt.t = "str"
    /\ JsonFieldOf(ResultText, "paymentStatus") = "\"paid\""

-----------------------------------------------------------------------------
(* C24 *)

\* C24: the paid flag of a demo payment record changes only inside a status or
\* confirm invocation for that record's id, and then only to paid.  The passage
\* of time, and charge, usage, refresh, invoice lookup, and status or confirm for
\* another id, leave the flag of every record as it was.  (A start that stores a
\* record under the id puts a new, unpaid record there; no flag of a record that
\* stays in the map is changed by it.)
C24_PaidChangesOnlyWhenAsked ==
    [][\A id \in DOMAIN demoSessions :
          (id \in DOMAIN demoSessions' /\ demoSessions'[id].paid # demoSessions[id].paid) =>
              /\ calls' = calls + 1
              /\ \/ /\ last'.name \in {"liveauth_mcp_status", "liveauth_mcp_confirm"}
                    /\ last'.hasArgs
                    /\ Get(last'.args, "quoteId") = id
                    /\ demoSessions'[id].paid
                 \/ /\ last'.name = "liveauth_mcp_start"
                    /\ ~demoSessions'[id].paid
                    /\ demoSessions'[id].createdAt = now]_vars

\* A record still unpaid although more than the delay has passed since it was
\* made and a charge has been made in the meantime
C24_Witness ==
    /\ last.name = "liveauth_mcp_charge"
    /\ \E id \in DOMAIN demoSessions :
          /\ ~demoSessions[id].paid
          /\ last.at - demoSessions[id].createdAt > DemoDelayMs

-----------------------------------------------------------------------------
(* C25 *)

\* The last invocation was a demo-mode start, and a record that is unpaid and was
\* made at the time of the call is held under the session id its result returns
StartStoredRecord ==
    \E id \in DOMAIN demoSessions :
        /\ JsonFieldIs(ResultText, "quoteId", id)
        /\ ~demoSessions[id].paid
        /\ demoSessions[id].createdAt = last.at
        /\ DOMAIN demoSessions = DOMAIN last.pre.demoSessions \cup {id}
        /\ \A k \in DOMAIN last.pre.demoSessions \ {id} :
              demoSessions[k] = last.pre.demoSessions[k]

\* C25 as stated: in demo mode every start call with forceLightning = true creates
\* a demo payment record for the returned session id with paid = false and
\* createdAt = now, and a start call without it creates no record.
C25_AsStated ==
    (DemoCallOf("liveauth_mcp_start")) =>
        IF Get(last.args, "forceLightning") = Bool(TRUE)
          THEN ~last.res.isError /\ StartStoredRecord
          ELSE demoSessions = last.pre.demoSessions

\* C25, amended: in demo mode a start call creates a demo payment record exactly
\* when its response carries an invoice, whether or not forceLightning was set.
\* The record is stored under the returned session id with paid = false and
\* createdAt = now, and the other records are untouched; a start that fails or
\* whose response carries no invoice creates no record.
C25_RecordIffInvoice ==
    (DemoCallOf("liveauth_mcp_start")) =>
        IF StartAnswered /\ Truthy(Get(last.resp.body.o, "invoice"))
          THEN ~last.res.isError /\ StartStoredRecord
          ELSE demoSessions = last.pre.demoSessions

\* A demo start that did not ask for an invoice and created a record
C25_Witness ==
    /\ DemoCallOf("liveauth_mcp_start")
    /\ last.args = EmptyObj
    /\ StartStoredRecord
    /\ last.pre.demoSessions = NoSessions

-----------------------------------------------------------------------------
(* C26 *)

\* The last invocation was a confirm answered 2xx by the remote service with a
\* body that carries a token
ConfirmGaveJwt ==
    /\ last.name = "liveauth_mcp_confirm"
    /\ last.out.sent
    /\ ~Failed(last.resp)
    /\ Truthy(Prop(last.resp.body, "jwt"))

\* C26 as stated: for every 2xx confirm response that carries a jwt, whatever its
\* other fields (paymentStatus included), the cached credential equals that jwt
\* afterwards; for every 2xx response without a jwt the cached credential is
\* unchanged.
C26_AsStated ==
    (last.name = "liveauth_mcp_confirm" /\ last.out.sent
        /\ last.resp.net = "resolved" /\ last.resp.ok) =>
        IF ConfirmGaveJwt
          THEN cachedJwt = Prop(last.resp.body, "jwt")
          ELSE cachedJwt = last.pre.cachedJwt

\* C26, amended: for every 2xx confirm response that carries a jwt and does not
\* report paymentStatus pending, the cached credential equals that jwt
\* afterwards; for every 2xx response without a jwt, and for every response that
\* reports paymentStatus pending, the cached credential is unchanged.
C26_CachedUnlessPending ==
    (last.name = "liveauth_mcp_confirm" /\ last.out.sent
        /\ last.resp.net = "resolved" /\ last.resp.ok) =>
        IF ConfirmGaveJwt /\ Prop(last.resp.body, "paymentStatus") # Str("pending")
          THEN cachedJwt = Prop(last.resp.body, "jwt")
          ELSE cachedJwt = last.pre.cachedJwt

\* A confirm answered with token j1 and paymentStatus paid, replacing the cached j2
C26_Witness ==
    /\ ConfirmGaveJwt
    /\ Prop(last.resp.body, "paymentStatus") = Str("paid")
    /\ last.pre.cachedJwt = Str("j2")
    /\ cachedJwt = Str("j1")

-----------------------------------------------------------------------------
(* C27 *)

\* C27: demo mode is active exactly when the demo flag is forced or no service
\* credential is configured: start goes to the demo endpoint, and usage is
\* answered locally, in exactly those configurations.  An outbound call carries
\* the X-LW-Public header only when a credential is configured and demo mode is
\* not active, and then with the configured credential as its value; no call
\* made in demo mode carries it.
C27_DemoModeAndKeyHeader ==
    /\ (last.name = "liveauth_mcp_start" /\ last.out.sent) =>
          (last.out.path = << "/api/public/demo/start" >> <=> (demoEnv \/ apiKey = ""))
    /\ (last.name = "liveauth_mcp_usage") =>
          (~last.out.sent <=> (demoEnv \/ apiKey = ""))
    /\ (last.out.sent /\ "X-LW-Public" \in DOMAIN last.out.headers) =>
          /\ apiKey # ""
          /\ ~demoEnv
          /\ last.out.headers["X-LW-Public"] = apiKey

\* Demo mode forced while a credential is configured: the start call goes to the
\* demo endpoint without the credential header
C27_Witness ==
    /\ demoEnv
    /\ apiKey = "la_pk_1"
    /\ last.name = "liveauth_mcp_start"
    /\ last.out.sent
    /\ last.out.path = << "/api/public/demo/start" >>
    /\ "X-LW-Public" \notin DOMAIN last.out.headers

\* A credential configured and demo mode off: the status call carries the header
C27_WitnessKey ==
    /\ ~demoEnv
    /\ last.name = "liveauth_mcp_status"
    /\ last.out.sent
    /\ "X-LW-Public" \in DOMAIN last.out.headers
    /\ last.out.headers["X-LW-Public"] = "la_pk_1"

-----------------------------------------------------------------------------
(* C28 *)

\* C28 as stated: usage changes neither the cached credential nor any demo
\* record, and the text of every successful usage result is the usage record the
\* remote service reported, unaltered.
C28_AsStated ==
    (last.name = "liveauth_mcp_usage") =>
        /\ cachedJwt = last.pre.cachedJwt
        /\ demoSessions = last.pre.demoSessions
        /\ ~last.res.isError =>
              /\ last.out.sent
              /\ ~Failed(last.resp)
              /\ ResultText = JsonText(last.resp.body)

\* C28, amended: usage changes neither the cached credential nor any demo record.
\* Outside demo mode the text of every successful usage result is the usage
\* record the remote service reported, unaltered; in demo mode no request is made
\* and the result is the fixed demo usage record (callsUsed 0, satsUsed 0,
\* remainingBudgetSats 1000, marked _demo).
C28_UsageRelayOrDemo ==
    (last.name = "liveauth_mcp_usage") =>
        /\ cachedJwt = last.pre.cachedJwt
        /\ demoSessions = last.pre.demoSessions
        /\ ~last.res.isError =>
              IF LIVEAUTH_DEMO
                THEN /\ ~last.out.sent
                     /\ JsonFieldOf(ResultText, "callsUsed") = "0"
                     /\ JsonFieldOf(ResultText, "satsUsed") = "0"
                     /\ JsonFieldOf(ResultText, "remainingBudgetSats") = "1000"
                     /\ JsonFieldOf(ResultText, "_demo") = "true"
                ELSE /\ last.out.sent
                     /\ ~Failed(last.resp)
                     /\ ResultText = JsonText(last.resp.body)

\* A usage call outside demo mode, made with a credential cached and demo
\* records absent, relaying the record of the remote service
C28_Witness ==
    /\ last.name = "liveauth_mcp_usage"
    /\ ~LIVEAUTH_DEMO
    /\ last.out.sent
    /\ ~last.res.isError
    /\ last.resp.body.t = "obj"
    /\ HasJsonField(ResultText, "callsUsed")
    /\ cachedJwt # Null

\* A usage call in demo mode with a demo record in the map, answered locally
C28_WitnessDemo ==
    /\ last.name = "liveauth_mcp_usage"
    /\ LIVEAUTH_DEMO
    /\ demoSessions # NoSessions
    /\ JsonFieldOf(ResultText, "_demo") = "true"

-----------------------------------------------------------------------------
(* C29 *)

\* The last invocation was a confirm or refresh whose response yielded a
\* credential: a 2xx answer carrying a token, for confirm not reported pending
YieldedCredential ==
    /\ last.name \in {"liveauth_mcp_confirm", "liveauth_mcp_refresh"}
    /\ last.out.sent
    /\ ~Failed(last.resp)
    /\ Truthy(Prop(last.resp.body, "jwt"))
    /\ last.name = "liveauth_mcp_confirm" => Prop(last.resp.body, "paymentStatus") # Str("pending")

\* C29: when invocations overlap at their outbound calls, every credential-
\* yielding call (confirm or refresh) leaves its own token in the cache at the
\* moment its response arrives, whatever arrived while it was suspended, so after
\* two overlapping ones have completed the cached credential is the token of the
\* response that arrived last; and the request of a charge that is suspended
\* carries the credential that was cached when the charge was invoked (none if
\* none was), whatever has been cached since.
C29_LastArrivalWins ==
    /\ YieldedCredential => cachedJwt = Prop(last.resp.body, "jwt")
    /\ \A c \in inflight :
          c.name = "liveauth_mcp_charge" =>
              IF Truthy(c.jwtAt)
                THEN /\ "Authorization" \in DOMAIN c.out.headers
                     /\ c.out.headers["Authorization"] = "Bearer " \o c.jwtAt.s
                ELSE "Authorization" \notin DOMAIN c.out.headers

\* Two credential-yielding calls were suspended together; the first response to
\* arrive cached j1, the second then replaced it by its own j2
C29_Witness ==
    /\ calls = 2
    /\ inflight = {}
    /\ hist.early.name \in {"liveauth_mcp_confirm", "liveauth_mcp_refresh"}
    /\ hist.early.jwt = Str("j1")
    /\ YieldedCredential
    /\ last.pre.cachedJwt = Str("j1")
    /\ cachedJwt = Str("j2")

\* A charge invoked with nothing cached is still suspended, without an
\* Authorization header, after a confirm or refresh has cached j1
C29_WitnessCharge ==
    \E c \in inflight :
        /\ c.name = "liveauth_mcp_charge"
        /\ c.jwtAt = Null
        /\ "Authorization" \notin DOMAIN c.out.headers
        /\ cachedJwt = Str("j1")

-----------------------------------------------------------------------------
(* C30 *)

\* C30: the cached credential is written only by confirm and refresh.  After a
\* start, status, invoice lookup, charge (allowed, denied or failed), usage or
\* unknown operation, and after any passage of time that follows it, the cached
\* credential is what it was before the call.
C30_OnlyConfirmAndRefreshWrite ==
    (last.name \notin {"liveauth_mcp_confirm", "liveauth_mcp_refresh"}) =>
        cachedJwt = last.pre.cachedJwt

\* A start answered by the service after a token had been obtained: the token is
\* still the cached credential
C30_Witness ==
    /\ StartAnswered
    /\ ~last.res.isError
    /\ last.pre.cachedJwt = Str("j1")
    /\ cachedJwt = Str("j1")

\* A denied charge leaves the cached credential in place as well
C30_WitnessDeny ==
    /\ ChargeAnswered
    /\ Get(last.resp.body.o, "status") = Str("deny")
    /\ cachedJwt = Str("j2")

-----------------------------------------------------------------------------
(* C31 *)

\* C31: a confirm or refresh whose remote call fails (transport failure, non-2xx
\* response, or a body that does not parse) gives an error result and leaves the
\* cached credential and every demo record exactly as they were before the call;
\* a start whose remote call fails creates no demo record.
C31_FailureChangesNothing ==
    (last.name \in {"liveauth_mcp_confirm", "liveauth_mcp_refresh", "liveauth_mcp_start"}
        /\ last.out.sent /\ Failed(last.resp)) =>
        /\ last.res.isError
        /\ demoSessions = last.pre.demoSessions
        /\ last.name # "liveauth_mcp_start" => cachedJwt = last.pre.cachedJwt

\* A refresh refused with a non-2xx response while j1 is cached: j1 stays cached
C31_Witness ==
    /\ last.name = "liveauth_mcp_refresh"
    /\ last.out.sent
    /\ last.resp.net = "resolved"
    /\ ~last.resp.ok
    /\ last.pre.cachedJwt = Str("j1")
    /\ cachedJwt = Str("j1")
    /\ last.res.isError

\* A demo-mode start that fails after a record has been made: the map is as it was
C31_WitnessStart ==
    /\ last.name = "liveauth_mcp_start"
    /\ last.out.sent
    /\ Failed(last.resp)
    /\ demoSessions # NoSessions

-----------------------------------------------------------------------------
(* C32 *)

\* C32: once a credential has been cached it is never cleared: a call made with a
\* credential cached leaves a token in the cache, whatever the call and its
\* outcome, a 2xx refresh response without a jwt included.  (Stated per call, it
\* gives the claim for every sequence of calls after the first caching.)
C32_NeverCleared ==
    Truthy(last.pre.cachedJwt) => (cachedJwt.t = "str" /\ cachedJwt.s # "")

-----------------------------------------------------------------------------
(* C33 *)

\* C33: when demo mode is not active the demo session map stays empty after any
\* sequence of operations, and no operation is answered locally: every start,
\* status, confirm and usage call that carries an argument bag (usage takes none)
\* is forwarded to its endpoint of the remote service.
C33_NoDemoOutsideDemoMode ==
    ~LIVEAUTH_DEMO =>
        /\ demoSessions = NoSessions
        /\ (last.name = "liveauth_mcp_start" /\ last.hasArgs) =>
              last.out.sent /\ last.out.path = << "/api/mcp/start" >>
        /\ (last.name = "liveauth_mcp_confirm" /\ last.hasArgs) =>
              last.out.sent /\ last.out.path = << "/api/mcp/confirm" >>
        /\ (last.name = "liveauth_mcp_status" /\ last.hasArgs) =>
              last.out.sent /\ Head(last.out.path) = "/api/mcp/status/"
        /\ (last.name = "liveauth_mcp_usage") =>
              last.out.sent /\ last.out.path = << "/api/mcp/usage" >>

\* Outside demo mode, a status call for the id of an invoice session started
\* before it: the map is empty and the call goes to the remote service
C33_Witness ==
    /\ ~LIVEAUTH_DEMO
    /\ last.name = "liveauth_mcp_status"
    /\ last.hasArgs
    /\ Get(last.args, "quoteId") \in hist.issued
    /\ last.out.sent
    /\ demoSessions = NoSessions

-----------------------------------------------------------------------------
(* C34 *)

\* C34: the names returned by the tool listing are exactly the names the
\* dispatcher handles: invoking a listed name never gives the unknown-operation
\* failure, and a name that is invoked without that failure is a listed one.
C34_ListedIffHandled ==
    (last.name # "none") =>
        ((\E i \in 1..Len(ListTools) : ListTools[i] = last.name)
            <=> ~(last.threw /\ Contains(ResultText, "Unknown tool: ")))

\* The last tool of the listing, invoked and answered by its handler
C34_Witness ==
    /\ last.name = ListTools[Len(ListTools)]
    /\ last.out.sent
    /\ ~last.res.isError

\* A name that is not listed, refused by the default case
C34_WitnessUnlisted ==
    /\ last.name = "liveauth_mcp_bogus"
    /\ last.threw
    /\ Contains(ResultText, "Unknown tool: ")

-----------------------------------------------------------------------------
(* C35 *)

\* C35: demo payment records are never removed: every id that had a record
\* before a call has one after it.  So in demo mode a confirm(id) of a recorded
\* id is answered locally on every call, the first and every later one: no
\* request is made, the result is not an error, and the token it returns is
\* minted for that call and is the cached credential afterwards.
C35_RecordsPersist ==
    /\ DOMAIN last.pre.demoSessions \subseteq DOMAIN demoSessions
    /\ ConfirmOfDemoSession =>
          /\ ~last.out.sent
          /\ ~last.res.isError
          /\ Get(last.args, "quoteId") \in DOMAIN demoSessions
          /\ cachedJwt \in {Str("demo_jwt_" \o ToString(last.at) \o "_" \o r) : r \in Rnds}
          /\ JsonFieldOf(ResultText, "jwt") = "\"" \o cachedJwt.s \o "\""

\* A second local confirm of the same record: the record was already paid with
\* no time passed since it was made (so by an earlier confirm, which cached its
\* token), and the token minted now has replaced that one
C35_Witness ==
    /\ ConfirmOfDemoSession
    /\ ConfirmedRecord.paid
    /\ ConfirmedRecord.createdAt = last.at
    /\ last.pre.cachedJwt = Str("demo_jwt_0_a")
    /\ cachedJwt = Str("demo_jwt_0_b")

====
